---- MODULE Spec2Model ----
(***************************************************************************)
(* Task board client (frontend/src/pages/Board.jsx) against the REST task  *)
(* store.  The Board keeps a Task Cache (`tasks`), derives the rendered    *)
(* list (`filteredTasks`) from it, and runs asynchronous handlers whose    *)
(* remote calls are served by the server and resumed on the UI event loop. *)
(* A remote call is a record in `calls`: it is "sent" until the server     *)
(* serves it, and then carries its outcome until the issuing handler is    *)
(* resumed with it (the await continuation), which removes it.             *)
(***************************************************************************)
EXTENDS Integers, Sequences, FiniteSets, TLC

\* ---------------------------------------------------------------- bounds
MaxOps == 2          \* user intents that issue a remote call
MaxUi == 2           \* user intents that only change the Board's UI state
MaxTasks == 2        \* tasks the server ever holds (ids 1..MaxTasks)
MaxCrudOps == 3      \* call-issuing intents in the create/delete scenario
MaxCrudUi == 2       \* UI-only intents in the create/delete scenario
MaxAuthOps == 1      \* call-issuing intents in the session scenarios
MaxAuthUi == 1       \* UI-only intents in the session scenarios
MaxSess == 2         \* logins, logout clicks and page loads of a session
MaxListOps == 2      \* call-issuing intents in the List response scenario
MaxListUi == 1       \* UI-only intents in the List response scenario
MaxFilterLen == 2    \* tasks of a cache handed to the filter
MaxFilterRuns == 2   \* runs of the filter effect on one input
MaxFormOps == 1      \* remote calls issued through the forms
MaxFormUi == 3       \* form intents that issue no call
MaxRefusedOps == 2   \* quick status changes against a server that refuses
MaxRewrites == 1     \* optimistic rewrites applied to one cache
MaxDragOps == 1      \* drags that issue a call, on a column of two cards
MaxDragUi == 1       \* drags that issue none

\* ------------------------------------------------------------ vocabulary
Statuses == {"BACKLOG", "IN_PROGRESS", "DONE"}
Priorities == {"LOW", "MEDIUM", "HIGH"}
PriorityFilters == {"ALL"} \cup Priorities

\* strings are sequences of one-character strings
Titles == {<<"A", "b">>}
SearchInputs == {<<"a">>, <<"c">>}
FormStatuses == {"IN_PROGRESS"}
FormPriorities == {"HIGH"}

Null == [id |-> 0, title |-> <<>>, status |-> "", priority |-> ""]
NoError == ""
NoPos == [droppableId |-> "", index |-> 0]
NoDrag == [source |-> NoPos, destination |-> NoPos, draggableId |-> 0]

VARIABLES
  server,          \* the server's persisted task list
  nextId,          \* next identifier the server assigns
  tasks,           \* Board state: the Task Cache
  filteredTasks,   \* Board state: the rendered subset
  loading,         \* Board state
  error,           \* Board state
  searchQuery,     \* Board state
  priorityFilter,  \* Board state
  isTaskModalOpen, \* Board state
  editingTask,     \* Board state
  deletingTask,    \* Board state
  toast,           \* Board state: the notification shown
  calls,           \* remote calls in flight
  nextCall,        \* identifier of the next remote call
  opsLeft,         \* call-issuing user intents still to come
  uiLeft,          \* UI-only user intents still to come
  logoutTimers,    \* pending setTimeout(() => logout(), 2000)
  notes,           \* notifications emitted by the last step
  lastDrag,        \* the drag result handled by the last step, if any
  lastCall,        \* the call whose handler the last step resumed, if any
  sequential,      \* history: no load has failed and no two calls overlapped
  tasksBefore,     \* the Task Cache before the last step
  issued,          \* the remote calls the last step issued
  localStorage,    \* the browser's durable storage
  envKey,          \* import.meta.env.VITE_API_KEY of the build
  isAuthenticated, \* AuthProvider state
  isLoading,       \* AuthProvider state
  route,           \* the router's location
  mounted,         \* a Board instance is mounted
  board,           \* number of the Board instance mounted last
  paginated,       \* the server wraps the List response in a page object
  tasksIsArray,    \* Board state: `tasks` holds an array
  sessionStep,     \* the session operation the last step ran, if any
  sessLeft,        \* session operations (login, logout, reload) still to come
  loginError,      \* Login state: the message under the key field
  formData,        \* TaskForm state: the fields of the form
  formErrors,      \* TaskForm state: the message under the title field
  dirty,           \* history: the fields typed since the form took its mode
  authFailedIn     \* history: the Board instances a load of which got 401/403

vars == <<server, nextId, tasks, filteredTasks, loading, error, searchQuery,
          priorityFilter, isTaskModalOpen, editingTask, deletingTask, toast,
          calls, nextCall, opsLeft, uiLeft, logoutTimers, notes, lastDrag,
          lastCall, sequential, tasksBefore, issued, localStorage, envKey,
          isAuthenticated, isLoading, route, mounted, board, paginated,
          tasksIsArray, sessionStep, sessLeft, loginError, formData,
          formErrors, dirty, authFailedIn>>

\* what the Board's own handlers never touch
session == <<localStorage, envKey, isAuthenticated, isLoading, route, mounted,
             board, paginated, sessLeft, loginError>>

boardUI == <<searchQuery, priorityFilter, isTaskModalOpen, editingTask,
             deletingTask>>

form == <<formData, formErrors, dirty>>

\* ------------------------------------------------------- string helpers
toLowerCase(s) ==
  [i \in 1..Len(s) |-> CASE s[i] = "A" -> "a"
                         [] s[i] = "B" -> "b"
                         [] s[i] = "C" -> "c"
                         [] OTHER -> s[i]]

isSpace(ch) == ch = " "

RECURSIVE trimStart(_)
trimStart(s) ==
  IF s # <<>> /\ isSpace(Head(s)) THEN trimStart(Tail(s)) ELSE s

RECURSIVE trimEnd(_)
trimEnd(s) ==
  IF s # <<>> /\ isSpace(s[Len(s)])
  THEN trimEnd(SubSeq(s, 1, Len(s) - 1)) ELSE s

trim(s) == trimEnd(trimStart(s))

includes(s, sub) ==
  \E k \in 0..(Len(s) - Len(sub)) : SubSeq(s, k + 1, k + Len(sub)) = sub

\* ------------------------------------------------------------ the filter
\* a filter that compares the title and the query as typed
filterTasks_CaseSensitive(ts, query, prio) ==
  LET bySearch == IF trim(query) # <<>>
                  THEN SelectSeq(ts, LAMBDA t : includes(t.title, query))
                  ELSE ts
  IN  IF prio # "ALL"
      THEN SelectSeq(bySearch, LAMBDA t : t.priority = prio)
      ELSE bySearch

filterTasks(ts, query, prio) ==
  LET bySearch == IF trim(query) # <<>>
                  THEN SelectSeq(ts, LAMBDA t :
                         includes(toLowerCase(t.title), toLowerCase(query)))
                  ELSE ts
  IN  IF prio # "ALL"
      THEN SelectSeq(bySearch, LAMBDA t : t.priority = prio)
      ELSE bySearch

\* a column that takes every filtered task
getTasksByStatus_All(status) == filteredTasks

getTasksByStatus(status) ==
  SelectSeq(filteredTasks, LAMBDA t : t.status = status)

\* the effect on [tasks, searchQuery, priorityFilter] re-derives the list;
\* spreading a `tasks` that is not an array throws, and the error of an
\* effect takes the whole tree down
Render ==
  filteredTasks' = IF tasksIsArray'
                   THEN filterTasks(tasks', searchQuery', priorityFilter')
                   ELSE filteredTasks

\* the Board is on screen and renders its columns, not the spinner
boardShown == mounted /\ tasksIsArray /\ ~loading

\* the Board instance that issued `c` is still the one on screen
live(c) == mounted /\ tasksIsArray /\ c.inst = board

\* history of the run: what the last step did, and whether calls overlapped
Track ==
  /\ sequential' = /\ sequential
                   /\ Cardinality(calls') <= 1
                   /\ ~(lastCall'.kind = "list"
                        /\ lastCall'.st \in {"auth", "err"})
  /\ tasksBefore' = tasks
  /\ issued' = {c \in calls' \ calls : c.st = "sent"}

\* ------------------------------------------------------- sequence helpers
Range(s) == {s[i] : i \in 1..Len(s)}

hasId(ts, id) == \E i \in 1..Len(ts) : ts[i].id = id

statusOf(ts, id) == ts[CHOOSE i \in 1..Len(ts) : ts[i].id = id].status

\* a map that rewrites nothing
setStatus_NoRewrite(ts, id, status) == ts

\* prevTasks.map((t) => t.id === id ? { ...t, status } : t)
setStatus(ts, id, status) ==
  [i \in 1..Len(ts) |->
     IF ts[i].id = id THEN [ts[i] EXCEPT !.status = status] ELSE ts[i]]

\* PATCH: the fields sent replace the task's, the others are kept
patch(t, data) ==
  [f \in DOMAIN t |-> IF f \in DOMAIN data THEN data[f] ELSE t[f]]

patchTask(ts, id, data) ==
  [i \in 1..Len(ts) |-> IF ts[i].id = id THEN patch(ts[i], data) ELSE ts[i]]

removeTask(ts, id) == SelectSeq(ts, LAMBDA t : t.id # id)

\* ------------------------------------------------------------ the API key
\* JavaScript's null: distinct from every string, which is a sequence of
\* one-character strings
null == <<"null">>

\* if (v): neither null, undefined nor the empty string
truthy(v) == v # null /\ v # <<>>

getItem(store, name) == IF name \in DOMAIN store THEN store[name] ELSE null

setItem(store, name, value) ==
  [n \in DOMAIN store \cup {name} |-> IF n = name THEN value ELSE store[n]]

removeItem(store, name) == [n \in DOMAIN store \ {name} |-> store[n]]

getApiKey(store) == getItem(store, "apiKey")

setApiKey(store, key) == setItem(store, "apiKey", key)

clearApiKey(store) == removeItem(store, "apiKey")

\* the request interceptor: the X-API-KEY header of a request issued while
\* the storage is `store`, null when the header is not set
interceptor(store) ==
  LET apiKey == IF truthy(getItem(store, "apiKey"))
                THEN getItem(store, "apiKey") ELSE envKey
  IN  IF truthy(apiKey) THEN apiKey ELSE null

\* ------------------------------------------------------------ remote calls
NoData == [none |-> TRUE]
NoCall == [cid |-> 0, kind |-> "", h |-> "", id |-> 0, data |-> NoData,
           prev |-> "", st |-> "", resp |-> <<>>, key |-> null, inst |-> 0]

\* a request of Board instance `board`, issued now
Call(kind, h, id, data, prev) ==
  [cid |-> nextCall, kind |-> kind, h |-> h, id |-> id, data |-> data,
   prev |-> prev, st |-> "sent", resp |-> <<>>,
   key |-> interceptor(localStorage), inst |-> board]

inFlight(kind) == {c \in calls : c.kind = kind}

showToast(type) == /\ toast' = type
                   /\ notes' = <<type>>

noToast == /\ toast' = toast
           /\ notes' = <<>>

\* fetchTasks up to its await: setLoading(true); setError(null); getAll().
\* The list call sends nothing; its record remembers the resumed call `c`
\* that started the load: the handler, the task and the data of `c`.
fetchTasks(c) ==
  /\ loading' = TRUE
  /\ error' = NoError
  /\ calls' = (calls \ {c}) \cup
       {[Call("list", c.h, c.id, c.data, "") EXCEPT !.inst = c.inst]}
  /\ nextCall' = nextCall + 1

\* ------------------------------------------------------------- TaskForm
\* useState({title: '', description: '', status: 'BACKLOG',
\*           priority: 'MEDIUM', due_date: ''}); the tasks of this model carry
\* a title, a status and a priority
FormDefaults == [title |-> <<>>, status |-> "BACKLOG", priority |-> "MEDIUM"]

\* the effect on [task]: title: task.title || '', ...
fromTask(task) == [title |-> task.title, status |-> task.status,
                   priority |-> task.priority]

InitForm == /\ formData = FormDefaults
            /\ formErrors = <<>>
            /\ dirty = {}
            /\ authFailedIn = {}

\* the Board renders the Modal, and the Modal its children, while the modal
\* is open and the Board does not show the spinner of `if (loading)`
formMounted(isOpen, isLoadingTasks) == isOpen /\ ~isLoadingTasks

\* the form after a render of the Board: it is created with the defaults
\* when the modal opens, its effect copies a task it is handed, and a task
\* prop that becomes null leaves the fields as they are
TaskFormRender ==
  /\ formData' =
       IF ~formMounted(isTaskModalOpen', loading') THEN FormDefaults
       ELSE IF ~formMounted(isTaskModalOpen, loading)
            THEN IF editingTask' # Null THEN fromTask(editingTask')
                                        ELSE FormDefaults
            ELSE IF editingTask' # Null /\ editingTask' # editingTask
                 THEN fromTask(editingTask')
                 ELSE formData
  /\ formErrors' = IF formMounted(isTaskModalOpen', loading') THEN formErrors ELSE <<>>
  /\ dirty' = IF /\ formMounted(isTaskModalOpen', loading')
                 /\ formMounted(isTaskModalOpen, loading)
                 /\ editingTask' = editingTask
              THEN dirty ELSE {}

\* ------------------------------------------------------------------- Init
InitServers ==
  { <<[id |-> 1, title |-> <<"A", "b">>, status |-> "BACKLOG",
       priority |-> "MEDIUM"]>> }

\* a server that holds two tasks of one column
TwoInColumn ==
  { <<[id |-> 1, title |-> <<"A", "b">>, status |-> "BACKLOG",
       priority |-> "MEDIUM"],
      [id |-> 2, title |-> <<"c">>, status |-> "BACKLOG",
       priority |-> "HIGH"]>> }

\* a Board just created, in front of one of `servers`
InitBoardOn(servers) ==
  /\ server \in servers
  /\ nextId = Len(server) + 1
  /\ tasks = <<>>
  /\ filteredTasks = <<>>
  /\ loading = TRUE
  /\ error = NoError
  /\ searchQuery = <<>>
  /\ priorityFilter = "ALL"
  /\ isTaskModalOpen = FALSE
  /\ editingTask = Null
  /\ deletingTask = Null
  /\ toast = ""
  /\ calls = {[cid |-> 1, kind |-> "list", h |-> "mount", id |-> 0,
               data |-> NoData, prev |-> "", st |-> "sent", resp |-> <<>>,
               key |-> interceptor(localStorage), inst |-> 1]}
  /\ nextCall = 2
  /\ tasksIsArray = TRUE
  /\ sessionStep = ""
  /\ logoutTimers = 0
  /\ notes = <<>>
  /\ lastDrag = NoDrag
  /\ lastCall = NoCall
  /\ sequential = TRUE
  /\ tasksBefore = <<>>
  /\ issued = {}
  /\ InitForm

InitBoard == InitBoardOn(InitServers)

\* a session that logged in with the key "k" and shows the Board; the server
\* answers a List with a plain array
LoggedIn ==
  /\ localStorage = [apiKey |-> <<"k">>]
  /\ envKey = null
  /\ isAuthenticated = TRUE
  /\ isLoading = FALSE
  /\ route = "/board"
  /\ mounted = TRUE
  /\ board = 1
  /\ paginated = FALSE
  /\ sessLeft = 0
  /\ loginError = <<>>

Init == LoggedIn /\ InitBoard /\ opsLeft = MaxOps /\ uiLeft = MaxUi

\* ----------------------------------------------------------------- server
created(data) == [id |-> nextId, title |-> data.title,
                  status |-> data.status, priority |-> data.priority]

\* what a successful call does to the persisted list
applyCall(c) ==
  CASE c.kind = "create" -> Append(server, created(c.data))
    [] c.kind = "update" -> patchTask(server, c.id, c.data)
    [] c.kind = "delete" -> removeTask(server, c.id)
    [] OTHER -> server

\* update and delete of an unknown id are answered 404
canSucceed(c) == c.kind \in {"update", "delete"} => hasId(server, c.id)

ServeOk(c) ==
  /\ c.st = "sent"
  /\ canSucceed(c)
  /\ server' = applyCall(c)
  /\ nextId' = IF c.kind = "create" THEN nextId + 1 ELSE nextId
  /\ calls' = (calls \ {c}) \cup
       {[c EXCEPT !.st = "ok",
                  !.resp = IF c.kind = "list" THEN server ELSE <<>>,
                  !.id = IF c.kind = "create" THEN nextId ELSE c.id]}
  /\ notes' = <<>>
  /\ lastDrag' = NoDrag
  /\ lastCall' = NoCall
  /\ sessionStep' = ""
  /\ UNCHANGED <<tasks, filteredTasks, loading, error, boardUI, toast,
                 nextCall, opsLeft, uiLeft, logoutTimers, session,
                 tasksIsArray, form, authFailedIn>>
  /\ Track

\* 401/403 ("auth") or any other failure ("err"); the list is not changed
ServeFail(c, st) ==
  /\ c.st = "sent"
  /\ calls' = (calls \ {c}) \cup {[c EXCEPT !.st = st]}
  /\ notes' = <<>>
  /\ lastDrag' = NoDrag
  /\ lastCall' = NoCall
  /\ sessionStep' = ""
  /\ UNCHANGED <<server, nextId, tasks, filteredTasks, loading, error,
                 boardUI, toast, nextCall, opsLeft, uiLeft, logoutTimers,
                 session, tasksIsArray, form, authFailedIn>>
  /\ Track

\* ------------------------------------------------- fetchTasks, resumed
\* a load that keeps the cache it had
loaded_KeepsCache(c) == tasks

\* setTasks(response.data)
loaded(c) == c.resp

\* a catch block that takes every failure for a refused key
authFailure_Any(c) == c.st # "ok"

\* err.response?.status === 401 || err.response?.status === 403
authFailure(c) == c.st = "auth"

\* a setLoading(false) that only the success path reaches
finallyLoading_OnSuccess(c) == IF c.st = "ok" THEN FALSE ELSE loading

\* finally { setLoading(false) }
finallyLoading(c) == FALSE

fetchTasksResume(c) ==
  /\ c.kind = "list" /\ c.st # "sent"
  /\ live(c)
  /\ tasks' = IF c.st = "ok" THEN loaded(c) ELSE tasks
  /\ tasksIsArray' = IF c.st = "ok" THEN ~paginated ELSE tasksIsArray
  /\ sessionStep' = ""
  /\ UNCHANGED session
  /\ authFailedIn' = IF c.st # "ok" /\ authFailure(c)
                     THEN authFailedIn \cup {c.inst} ELSE authFailedIn
  /\ error' = CASE c.st = "ok" -> error
                [] authFailure(c) -> "Invalid API key. Please login again."
                [] OTHER -> "Failed to fetch tasks. Please try again."
  /\ logoutTimers' = IF c.st # "ok" /\ authFailure(c)
                     THEN logoutTimers + 1 ELSE logoutTimers
  /\ loading' = finallyLoading(c)
  /\ calls' = calls \ {c}
  /\ noToast
  /\ lastDrag' = NoDrag
  /\ lastCall' = c
  /\ UNCHANGED <<server, nextId, boardUI, nextCall, opsLeft, uiLeft>>
  /\ Render
  /\ TaskFormRender
  /\ Track

\* ------------------------------------------------------ the form inputs
FormInputs == [title : Titles, status : FormStatuses, priority : FormPriorities]

\* a user intent that issues a remote call
Intent == /\ boardShown
          /\ opsLeft > 0
          /\ opsLeft' = opsLeft - 1
          /\ uiLeft' = uiLeft
          /\ lastDrag' = NoDrag
          /\ lastCall' = NoCall

\* the server holds at most MaxTasks tasks
roomToCreate == nextId + Cardinality({c \in inFlight("create") : c.st = "sent"})
                  <= MaxTasks

issue(call) == /\ calls' = calls \cup {call}
               /\ nextCall' = nextCall + 1

\* a continuation that does not wait for the response
resumed_Early(c, kind, h) == c.kind = kind /\ c.h = h /\ live(c)

\* the handler continues after its await once the call has resolved
resumed(c, kind, h) == c.kind = kind /\ c.h = h /\ c.st # "sent" /\ live(c)

\* what every step that starts a handler shares
Invoke == /\ noToast
          /\ sessionStep' = ""
          /\ UNCHANGED <<server, nextId, loading, error, boardUI,
                         logoutTimers, session, tasksIsArray, formData,
                         dirty, authFailedIn>>
          /\ Render
          /\ Track

\* what every step that resumes a handler after its await shares
Resume(c) == /\ lastDrag' = NoDrag
             /\ lastCall' = c
             /\ sessionStep' = ""
             /\ UNCHANGED <<server, nextId, searchQuery, priorityFilter,
                            opsLeft, uiLeft, logoutTimers, session,
                            tasksIsArray, authFailedIn>>
             /\ Render
             /\ TaskFormRender
             /\ Track

\* the call has resolved and the handler starts no load
settled(c) == /\ calls' = calls \ {c}
              /\ UNCHANGED <<loading, error, nextCall>>

\* ------------------------------------------------------ handleCreateTask
\* TaskForm.handleSubmit calls it with the fields that passed validate(),
\* which has cleared the messages
handleCreateTask(submitData) ==
  /\ Intent
  /\ isTaskModalOpen /\ editingTask = Null
  /\ roomToCreate
  /\ issue(Call("create", "create", 0, submitData, ""))
  /\ tasks' = tasks
  /\ formErrors' = <<>>
  /\ Invoke

handleCreateTaskThen(c) ==
  /\ isTaskModalOpen' = FALSE
  /\ fetchTasks(c)
  /\ showToast("success")
  /\ UNCHANGED <<tasks, editingTask, deletingTask>>

\* a catch block that shows the draft it could not create
handleCreateTaskCatch_Phantom(c) ==
  /\ showToast("error")
  /\ settled(c)
  /\ tasks' = Append(tasks, [id |-> 0, title |-> c.data.title,
                             status |-> c.data.status,
                             priority |-> c.data.priority])
  /\ UNCHANGED <<isTaskModalOpen, editingTask, deletingTask>>

handleCreateTaskCatch(c) ==
  /\ showToast("error")
  /\ settled(c)
  /\ UNCHANGED <<tasks, isTaskModalOpen, editingTask, deletingTask>>

handleCreateTaskResume(c) ==
  /\ resumed(c, "create", "create")
  /\ IF c.st = "ok" THEN handleCreateTaskThen(c) ELSE handleCreateTaskCatch(c)
  /\ Resume(c)

\* ---------------------------------------------------- handleQuickAddTask
\* QuickAddTask.handleSubmit passes {title: title.trim(), status, priority}
handleQuickAddTask(taskData) ==
  /\ Intent
  /\ roomToCreate
  /\ issue(Call("create", "quickAdd", 0, taskData, ""))
  /\ tasks' = tasks
  /\ formErrors' = formErrors
  /\ Invoke

\* a handler that shows the toast but starts no load
handleQuickAddTaskThen_NoReload(c) ==
  /\ settled(c)
  /\ showToast("success")
  /\ UNCHANGED <<tasks, isTaskModalOpen, editingTask, deletingTask>>

handleQuickAddTaskThen(c) ==
  /\ fetchTasks(c)
  /\ showToast("success")
  /\ UNCHANGED <<tasks, isTaskModalOpen, editingTask, deletingTask>>

handleQuickAddTaskCatch(c) ==
  /\ showToast("error")
  /\ settled(c)
  /\ UNCHANGED <<tasks, isTaskModalOpen, editingTask, deletingTask>>

handleQuickAddTaskResume(c) ==
  /\ resumed(c, "create", "quickAdd")
  /\ IF c.st = "ok" THEN handleQuickAddTaskThen(c)
                    ELSE handleQuickAddTaskCatch(c)
  /\ Resume(c)

\* ------------------------------------------------------ handleUpdateTask
handleUpdateTask(submitData) ==
  /\ Intent
  /\ isTaskModalOpen /\ editingTask # Null
  /\ issue(Call("update", "update", editingTask.id, submitData, ""))
  /\ tasks' = tasks
  /\ formErrors' = <<>>
  /\ Invoke

\* a handler that merges the edit into the cache instead of reloading
handleUpdateTaskThen_Merges(c) ==
  /\ isTaskModalOpen' = FALSE
  /\ editingTask' = Null
  /\ settled(c)
  /\ tasks' = patchTask(tasks, c.id, c.data)
  /\ showToast("success")
  /\ UNCHANGED deletingTask

handleUpdateTaskThen(c) ==
  /\ isTaskModalOpen' = FALSE
  /\ editingTask' = Null
  /\ fetchTasks(c)
  /\ showToast("success")
  /\ UNCHANGED <<tasks, deletingTask>>

handleUpdateTaskCatch(c) ==
  /\ showToast("error")
  /\ settled(c)
  /\ UNCHANGED <<tasks, isTaskModalOpen, editingTask, deletingTask>>

handleUpdateTaskResume(c) ==
  /\ resumed(c, "update", "update")
  /\ IF c.st = "ok" THEN handleUpdateTaskThen(c) ELSE handleUpdateTaskCatch(c)
  /\ Resume(c)

\* ------------------------------------------------------ handleDeleteTask
handleDeleteTask ==
  /\ Intent
  /\ deletingTask # Null
  /\ issue(Call("delete", "delete", deletingTask.id, NoData, ""))
  /\ tasks' = tasks
  /\ formErrors' = formErrors
  /\ Invoke

handleDeleteTaskThen(c) ==
  /\ deletingTask' = Null
  /\ fetchTasks(c)
  /\ showToast("success")
  /\ UNCHANGED <<tasks, isTaskModalOpen, editingTask>>

handleDeleteTaskCatch(c) ==
  /\ showToast("error")
  /\ settled(c)
  /\ UNCHANGED <<tasks, isTaskModalOpen, editingTask, deletingTask>>

handleDeleteTaskResume(c) ==
  /\ resumed(c, "delete", "delete")
  /\ IF c.st = "ok" THEN handleDeleteTaskThen(c) ELSE handleDeleteTaskCatch(c)
  /\ Resume(c)

\* ----------------------------------------------- handleQuickStatusChange
\* a catch block that writes the optimistic value again
rollbackStatus_KeepsNew(c) == c.data.status

\* the value the catch block writes back
rollbackStatus(c) == c.prev

handleQuickStatusChange(task, newStatus) ==
  /\ Intent
  /\ tasks' = setStatus(tasks, task.id, newStatus)
  /\ issue(Call("update", "qsc", task.id, [status |-> newStatus],
                task.status))
  /\ formErrors' = formErrors
  /\ Invoke

\* a continuation that writes the status it asked for into the cache again
handleQuickStatusChangeThen_Applies(c) ==
  /\ tasks' = setStatus(tasks, c.id, c.data.status)
  /\ showToast("success")
  /\ settled(c)
  /\ UNCHANGED <<isTaskModalOpen, editingTask, deletingTask>>

handleQuickStatusChangeThen(c) ==
  /\ showToast("success")
  /\ settled(c)
  /\ UNCHANGED <<tasks, isTaskModalOpen, editingTask, deletingTask>>

\* a catch block that reverts without telling the user
handleQuickStatusChangeCatch_Silent(c) ==
  /\ tasks' = setStatus(tasks, c.id, rollbackStatus(c))
  /\ noToast
  /\ settled(c)
  /\ UNCHANGED <<isTaskModalOpen, editingTask, deletingTask>>

handleQuickStatusChangeCatch(c) ==
  /\ tasks' = setStatus(tasks, c.id, rollbackStatus(c))
  /\ showToast("error")
  /\ settled(c)
  /\ UNCHANGED <<isTaskModalOpen, editingTask, deletingTask>>

handleQuickStatusChangeResume(c) ==
  /\ resumed(c, "update", "qsc")
  /\ IF c.st = "ok" THEN handleQuickStatusChangeThen(c)
                    ELSE handleQuickStatusChangeCatch(c)
  /\ Resume(c)

\* ---------------------------------------------------------- handleDragEnd
Digits == <<"0", "1", "2", "3", "4", "5", "6", "7", "8", "9">>

\* task.id.toString()
RECURSIVE idToString(_)
idToString(n) ==
  IF n < 10 THEN <<Digits[n + 1]>>
  ELSE Append(idToString(n \div 10), Digits[(n % 10) + 1])

digitValue(ch) == (CHOOSE k \in 1..10 : Digits[k] = ch) - 1

\* parseInt(draggableId)
RECURSIVE parseInt(_)
parseInt(s) ==
  IF Len(s) = 1 THEN digitValue(s[1])
  ELSE 10 * parseInt(SubSeq(s, 1, Len(s) - 1)) + digitValue(s[Len(s)])

\* the results the drag-and-drop library can report for the rendered board:
\* a rendered card, and no destination or a slot of some column
DragResults ==
  { [source |-> [droppableId |-> x[1], index |-> x[2] - 1],
     destination |-> x[3],
     draggableId |-> idToString(getTasksByStatus(x[1])[x[2]].id)] :
      x \in
        { y \in Statuses \X (1..MaxTasks) \X
                ({NoPos} \cup [droppableId : Statuses, index : 0..MaxTasks]) :
            /\ y[2] <= Len(getTasksByStatus(y[1]))
            /\ y[3] # NoPos =>
                 y[3].index <= Len(getTasksByStatus(y[3].droppableId))
                               - (IF y[3].droppableId = y[1] THEN 1 ELSE 0) } }

noDestination(result) == result.destination = NoPos

\* a check that takes every drop into the source column for no move
samePosition_SameColumn(source, destination) ==
  source.droppableId = destination.droppableId

\* a check that never recognises the source position
samePosition_Never(source, destination) == FALSE

\* dropped in the same position
samePosition(source, destination) ==
  /\ source.droppableId = destination.droppableId
  /\ source.index = destination.index

handleDragEnd(result) ==
  /\ boardShown
  /\ lastDrag' = result
  /\ lastCall' = NoCall
  /\ formErrors' = formErrors
  /\ IF noDestination(result)
        \/ samePosition(result.source, result.destination)
     THEN /\ uiLeft > 0
          /\ uiLeft' = uiLeft - 1
          /\ UNCHANGED <<tasks, calls, nextCall, opsLeft>>
     ELSE /\ opsLeft > 0
          /\ opsLeft' = opsLeft - 1
          /\ tasks' = setStatus(tasks, parseInt(result.draggableId),
                                result.destination.droppableId)
          /\ issue(Call("update", "drag", parseInt(result.draggableId),
                        [status |-> result.destination.droppableId], ""))
          /\ uiLeft' = uiLeft
  /\ Invoke

handleDragEndThen(c) ==
  /\ showToast("success")
  /\ settled(c)
  /\ UNCHANGED <<tasks, isTaskModalOpen, editingTask, deletingTask>>

\* a catch block that shows the toast but starts no load
handleDragEndCatch_NoReload(c) ==
  /\ settled(c)
  /\ showToast("error")
  /\ UNCHANGED <<tasks, isTaskModalOpen, editingTask, deletingTask>>

handleDragEndCatch(c) ==
  /\ fetchTasks(c)
  /\ showToast("error")
  /\ UNCHANGED <<tasks, isTaskModalOpen, editingTask, deletingTask>>

handleDragEndResume(c) ==
  /\ resumed(c, "update", "drag")
  /\ IF c.st = "ok" THEN handleDragEndThen(c) ELSE handleDragEndCatch(c)
  /\ Resume(c)

\* ------------------------------------------------------------ UI intents
\* a user intent that issues no remote call
UiStep == /\ uiLeft > 0
          /\ uiLeft' = uiLeft - 1
          /\ noToast
          /\ lastDrag' = NoDrag
          /\ lastCall' = NoCall
          /\ sessionStep' = ""
          /\ UNCHANGED <<server, nextId, tasks, loading, error, calls,
                         nextCall, opsLeft, logoutTimers, session,
                         tasksIsArray, authFailedIn>>
          /\ Render
          /\ Track

\* an intent on the Board's own state
UiIntent == UiStep /\ TaskFormRender

openEditModal(task) ==
  /\ boardShown
  /\ editingTask' = task
  /\ isTaskModalOpen' = TRUE
  /\ UNCHANGED <<searchQuery, priorityFilter, deletingTask>>
  /\ UiIntent

\* the "+ New Task" button, and Ctrl/Cmd+K on the window at any time
openCreateModal ==
  /\ mounted /\ tasksIsArray
  /\ editingTask' = Null
  /\ isTaskModalOpen' = TRUE
  /\ UNCHANGED <<searchQuery, priorityFilter, deletingTask>>
  /\ UiIntent

closeTaskModal ==
  /\ boardShown /\ isTaskModalOpen
  /\ isTaskModalOpen' = FALSE
  /\ editingTask' = Null
  /\ UNCHANGED <<searchQuery, priorityFilter, deletingTask>>
  /\ UiIntent

\* TaskCard's Delete button (a task) and the confirmation's Cancel (Null)
setDeletingTask(task) ==
  /\ boardShown
  /\ task = Null => deletingTask # Null
  /\ deletingTask' = task
  /\ UNCHANGED <<searchQuery, priorityFilter, isTaskModalOpen, editingTask>>
  /\ UiIntent

setSearchQuery(q) ==
  /\ boardShown
  /\ searchQuery' = q
  /\ UNCHANGED <<priorityFilter, isTaskModalOpen, editingTask, deletingTask>>
  /\ UiIntent

setPriorityFilter(p) ==
  /\ boardShown
  /\ priorityFilter' = p
  /\ UNCHANGED <<searchQuery, isTaskModalOpen, editingTask, deletingTask>>
  /\ UiIntent

\* --------------------------------------------------------------- TaskForm
\* the titles a user types into a form
TypedTitles == {<<>>, <<" ">>, <<"c", " ">>}

FormFields == {"title", "status", "priority"}

\* what the user can put into a field of the form
FieldInputs(name) == CASE name = "title" -> TypedTitles
                       [] name = "status" -> FormStatuses
                       [] name = "priority" -> FormPriorities

formShown == boardShown /\ isTaskModalOpen

\* TaskForm.handleChange
handleChange(name, value) ==
  /\ formShown
  /\ formData' = [formData EXCEPT ![name] = value]
  /\ formErrors' = IF name = "title" THEN <<>> ELSE formErrors
  /\ dirty' = dirty \cup {name}
  /\ UNCHANGED boardUI
  /\ UiStep

\* a check that takes a title of spaces for a title
validate_Untrimmed(fd) == fd.title # <<>>

\* TaskForm.validate: !formData.title.trim() is an error
validate(fd) == trim(fd.title) # <<>>

\* TaskForm.handleSubmit: onSubmit is handleUpdateTask while a task is
\* edited, handleCreateTask otherwise
TaskFormHandleSubmit ==
  /\ formShown
  /\ IF validate(formData)
     THEN IF editingTask # Null THEN handleUpdateTask(formData)
                                ELSE handleCreateTask(formData)
     ELSE /\ formErrors' = <<"r">>           \* 'Title is required'
          /\ UNCHANGED <<boardUI, formData, dirty>>
          /\ UiStep

\* QuickAddTask.handleSubmit: if (!title.trim()) return
acceptsTitle(title) == trim(title) # <<>>

\* QuickAddTask.handleSubmit of the column `status`, with the title typed
QuickAddTaskHandleSubmit(status, title, priority) ==
  /\ boardShown
  /\ IF acceptsTitle(title)
     THEN handleQuickAddTask([title |-> trim(title), status |-> status,
                              priority |-> priority])
     ELSE /\ UNCHANGED <<boardUI, form>>
          /\ UiStep

\* ------------------------------------------------------------ the session
\* the API keys a user types into the Login form
LoginInputs == {<<>>, <<" ">>, <<"k">>, <<"j", " ">>}

\* the build's VITE_API_KEY: not defined, or the development key of .env
EnvKeys == {null, <<"d">>}

\* a Board instance is created: its state is the useState defaults and its
\* mount effect starts the first load, while the storage is `store`
BoardMount(store) ==
  /\ mounted' = TRUE
  /\ board' = board + 1
  /\ tasks' = <<>>
  /\ filteredTasks' = <<>>
  /\ tasksIsArray' = TRUE
  /\ loading' = TRUE
  /\ error' = NoError
  /\ searchQuery' = <<>>
  /\ priorityFilter' = "ALL"
  /\ isTaskModalOpen' = FALSE
  /\ editingTask' = Null
  /\ deletingTask' = Null
  /\ toast' = ""
  /\ formData' = FormDefaults
  /\ formErrors' = <<>>
  /\ dirty' = {}
  /\ calls' = calls \cup
       {[cid |-> nextCall, kind |-> "list", h |-> "mount", id |-> 0,
         data |-> NoData, prev |-> "", st |-> "sent", resp |-> <<>>,
         key |-> interceptor(store), inst |-> board + 1]}
  /\ nextCall' = nextCall + 1

\* no Board instance: nothing of its state is left
BoardGone ==
  /\ mounted' = FALSE
  /\ tasks' = <<>>
  /\ filteredTasks' = <<>>
  /\ tasksIsArray' = TRUE
  /\ loading' = TRUE
  /\ error' = NoError
  /\ searchQuery' = <<>>
  /\ priorityFilter' = "ALL"
  /\ isTaskModalOpen' = FALSE
  /\ editingTask' = Null
  /\ deletingTask' = Null
  /\ toast' = ""
  /\ formData' = FormDefaults
  /\ formErrors' = <<>>
  /\ dirty' = {}

\* the Board instance is discarded; its calls stay in flight
BoardUnmount == BoardGone /\ UNCHANGED <<board, calls, nextCall>>

BoardKept ==
  UNCHANGED <<mounted, board, tasks, filteredTasks, tasksIsArray, loading,
              error, boardUI, toast, calls, nextCall, form>>

\* the guard of the /board route: the Board for an authenticated session,
\* the Login page otherwise
PrivateRoute(url) ==
  IF url = "/board"
  THEN IF isAuthenticated'
       THEN /\ IF mounted THEN BoardKept ELSE BoardMount(localStorage')
            /\ route' = "/board"
       ELSE /\ IF mounted THEN BoardUnmount ELSE BoardKept
            /\ route' = "/login"          \* <Navigate to="/login" />
  ELSE /\ IF mounted THEN BoardUnmount ELSE BoardKept
       /\ route' = url

\* what every step of the session shares
SessionStep(name) ==
  /\ sessionStep' = name
  /\ notes' = <<>>
  /\ lastDrag' = NoDrag
  /\ lastCall' = NoCall
  /\ UNCHANGED <<server, nextId, opsLeft, uiLeft, envKey, paginated,
                 authFailedIn>>
  /\ Track

\* an effect that never finds the key
hasStoredKey_Never(store) == FALSE

\* const apiKey = getApiKey(); if (apiKey)
hasStoredKey(store) == truthy(getApiKey(store))

\* AuthProvider's mount effect
AuthProviderInit ==
  /\ isLoading
  /\ isAuthenticated' = (isAuthenticated \/ hasStoredKey(localStorage))
  /\ isLoading' = FALSE
  /\ localStorage' = localStorage
  /\ PrivateRoute(route)
  /\ UNCHANGED <<logoutTimers, sessLeft, loginError>>
  /\ SessionStep("init")

\* AuthContext.login
login(apiKey) ==
  /\ localStorage' = setApiKey(localStorage, apiKey)
  /\ isAuthenticated' = TRUE

\* a logout that leaves the key in the storage
logout_KeepsKey ==
  /\ localStorage' = localStorage
  /\ isAuthenticated' = FALSE

\* AuthContext.logout
logout ==
  /\ localStorage' = clearApiKey(localStorage)
  /\ isAuthenticated' = FALSE

\* Login.handleSubmit
LoginHandleSubmit(apiKey) ==
  /\ route = "/login" /\ ~isLoading
  /\ sessLeft > 0
  /\ sessLeft' = sessLeft - 1
  /\ IF trim(apiKey) = <<>>
     THEN /\ loginError' = <<"r">>       \* 'API key is required'
          /\ UNCHANGED <<localStorage, isAuthenticated, route>>
          /\ BoardKept
     ELSE /\ loginError' = <<>>
          /\ login(apiKey)
          /\ PrivateRoute("/board")      \* navigate('/board')
  /\ UNCHANGED <<isLoading, logoutTimers>>
  /\ SessionStep("login")

\* the Board's Logout button
LogoutClick ==
  /\ boardShown
  /\ sessLeft > 0
  /\ sessLeft' = sessLeft - 1
  /\ logout
  /\ PrivateRoute(route)
  /\ UNCHANGED <<isLoading, logoutTimers, loginError>>
  /\ SessionStep("logout")

\* the callback of setTimeout(() => logout(), 2000)
LogoutTimer ==
  /\ logoutTimers > 0
  /\ logoutTimers' = logoutTimers - 1
  /\ logout
  /\ PrivateRoute(route)
  /\ UNCHANGED <<isLoading, sessLeft, loginError>>
  /\ SessionStep("timer")

\* the user loads the page at `url`: nothing of the page survives but the
\* storage; the responses of the calls in flight are dropped
Reload(url) ==
  /\ ~isLoading
  /\ sessLeft > 0
  /\ sessLeft' = sessLeft - 1
  /\ route' = url
  /\ isAuthenticated' = FALSE
  /\ isLoading' = TRUE
  /\ BoardGone
  /\ calls' = {}
  /\ logoutTimers' = 0
  /\ loginError' = <<>>
  /\ UNCHANGED <<localStorage, board, nextCall>>
  /\ SessionStep("reload")

\* a handler resumed after its Board instance is gone: the state setters do
\* nothing, a load the handler starts is still sent, and a load refused with
\* 401/403 still arms the logout timer
startsLoad(c) ==
  \/ c.h \in {"create", "quickAdd", "update", "delete"}
       /\ c.kind # "list" /\ c.st = "ok"
  \/ c.h = "drag" /\ c.kind = "update" /\ c.st # "ok"

orphanResume(c) ==
  /\ c.st # "sent" /\ ~live(c)
  /\ IF startsLoad(c)
     THEN /\ calls' = (calls \ {c}) \cup
               {[Call("list", c.h, c.id, c.data, "") EXCEPT !.inst = c.inst]}
          /\ nextCall' = nextCall + 1
     ELSE /\ calls' = calls \ {c}
          /\ nextCall' = nextCall
  /\ logoutTimers' = IF c.kind = "list" /\ c.st # "ok" /\ authFailure(c)
                     THEN logoutTimers + 1 ELSE logoutTimers
  /\ notes' = <<>>
  /\ lastDrag' = NoDrag
  /\ lastCall' = c
  /\ sessionStep' = ""
  /\ authFailedIn' = IF c.kind = "list" /\ c.st # "ok" /\ authFailure(c)
                     THEN authFailedIn \cup {c.inst} ELSE authFailedIn
  /\ UNCHANGED <<server, nextId, tasks, filteredTasks, loading, error,
                 boardUI, toast, opsLeft, uiLeft, session, tasksIsArray,
                 form>>
  /\ Track

\* ------------------------------------------------------------------- Next
Next ==
  \/ \E c \in calls : ServeOk(c)
  \/ \E c \in calls, st \in {"auth", "err"} : ServeFail(c, st)
  \/ \E c \in calls : fetchTasksResume(c)
  \/ \E f \in FormInputs : handleCreateTask(f)
  \/ \E c \in calls : handleCreateTaskResume(c)
  \/ \E f \in FormInputs : handleQuickAddTask(f)
  \/ \E c \in calls : handleQuickAddTaskResume(c)
  \/ \E f \in FormInputs : handleUpdateTask(f)
  \/ \E c \in calls : handleUpdateTaskResume(c)
  \/ handleDeleteTask
  \/ \E c \in calls : handleDeleteTaskResume(c)
  \/ \E t \in Range(filteredTasks), s \in Statuses :
       handleQuickStatusChange(t, s)
  \/ \E c \in calls : handleQuickStatusChangeResume(c)
  \/ \E r \in DragResults : handleDragEnd(r)
  \/ \E c \in calls : handleDragEndResume(c)
  \/ \E t \in Range(filteredTasks) : openEditModal(t)
  \/ openCreateModal
  \/ closeTaskModal
  \/ \E t \in Range(filteredTasks) \cup {Null} : setDeletingTask(t)
  \/ \E q \in SearchInputs : setSearchQuery(q)
  \/ \E p \in PriorityFilters : setPriorityFilter(p)

Spec == Init /\ [][Next]_vars

\* The Board used only to create and delete tasks, for more intents
InitCrud ==
  LoggedIn /\ InitBoard /\ opsLeft = MaxCrudOps /\ uiLeft = MaxCrudUi

NextCrud ==
  \/ \E c \in calls : ServeOk(c)
  \/ \E c \in calls, st \in {"auth", "err"} : ServeFail(c, st)
  \/ \E c \in calls : fetchTasksResume(c)
  \/ \E f \in FormInputs : handleCreateTask(f)
  \/ \E c \in calls : handleCreateTaskResume(c)
  \/ \E f \in FormInputs : handleQuickAddTask(f)
  \/ \E c \in calls : handleQuickAddTaskResume(c)
  \/ handleDeleteTask
  \/ \E c \in calls : handleDeleteTaskResume(c)
  \/ openCreateModal
  \/ \E t \in Range(filteredTasks) \cup {Null} : setDeletingTask(t)

SpecCrud == InitCrud /\ [][NextCrud]_vars

\* ------------------------------------------------------------ the session
\* the page is loaded at /login or /board, with or without a stored key
InitAuth ==
  /\ localStorage \in {<<>>, [apiKey |-> <<"k">>]}
  /\ envKey \in EnvKeys
  /\ isAuthenticated = FALSE
  /\ isLoading = TRUE
  /\ route \in {"/login", "/board"}
  /\ mounted = FALSE
  /\ board = 0
  /\ paginated = FALSE
  /\ sessLeft = MaxSess
  /\ loginError = <<>>
  /\ server \in InitServers
  /\ nextId = Len(server) + 1
  /\ tasks = <<>>
  /\ filteredTasks = <<>>
  /\ tasksIsArray = TRUE
  /\ loading = TRUE
  /\ error = NoError
  /\ searchQuery = <<>>
  /\ priorityFilter = "ALL"
  /\ isTaskModalOpen = FALSE
  /\ editingTask = Null
  /\ deletingTask = Null
  /\ toast = ""
  /\ calls = {}
  /\ nextCall = 1
  /\ logoutTimers = 0
  /\ notes = <<>>
  /\ lastDrag = NoDrag
  /\ lastCall = NoCall
  /\ sequential = TRUE
  /\ tasksBefore = <<>>
  /\ issued = {}
  /\ InitForm
  /\ sessionStep = ""
  /\ opsLeft = MaxAuthOps
  /\ uiLeft = MaxAuthUi

\* the server answers, and the event loop resumes the handler that waits
Serve == \/ \E c \in calls : ServeOk(c)
         \/ \E c \in calls, st \in {"auth", "err"} : ServeFail(c, st)

Resumption ==
  \/ \E c \in calls : fetchTasksResume(c)
  \/ \E c \in calls : handleQuickAddTaskResume(c)
  \/ \E c \in calls : handleQuickStatusChangeResume(c)
  \/ \E c \in calls : handleDragEndResume(c)
  \/ \E c \in calls : orphanResume(c)

\* one page, from its load on
NextPage ==
  \/ Serve
  \/ Resumption
  \/ \E f \in FormInputs : handleQuickAddTask(f)
  \/ \E t \in Range(filteredTasks), s \in Statuses :
       handleQuickStatusChange(t, s)
  \/ \E r \in DragResults : handleDragEnd(r)
  \/ AuthProviderInit
  \/ \E k \in LoginInputs : LoginHandleSubmit(k)
  \/ LogoutClick
  \/ LogoutTimer

\* timers fire, the server answers and continuations run
SpecPage == /\ InitAuth /\ [][NextPage]_vars
            /\ WF_vars(LogoutTimer)
            /\ WF_vars(Serve)
            /\ WF_vars(Resumption)
            /\ WF_vars(AuthProviderInit)

\* the session over page loads
NextAuth == NextPage \/ \E url \in {"/login", "/board"} : Reload(url)

SpecAuth == InitAuth /\ [][NextAuth]_vars

\* ------------------------------------------------- the List response
\* a logged-in session against a server that answers a List with a plain
\* array, or with a page object {count, next, previous, results}
InitList ==
  /\ localStorage = [apiKey |-> <<"k">>]
  /\ envKey = null
  /\ isAuthenticated = TRUE
  /\ isLoading = FALSE
  /\ route = "/board"
  /\ mounted = TRUE
  /\ board = 1
  /\ paginated \in BOOLEAN
  /\ sessLeft = 0
  /\ loginError = <<>>
  /\ InitBoard
  /\ opsLeft = MaxListOps
  /\ uiLeft = MaxListUi

NextList ==
  \/ Serve
  \/ \E c \in calls : fetchTasksResume(c)
  \/ \E t \in Range(filteredTasks), s \in Statuses :
       handleQuickStatusChange(t, s)
  \/ \E c \in calls : handleQuickStatusChangeResume(c)
  \/ \E r \in DragResults : handleDragEnd(r)
  \/ \E c \in calls : handleDragEndResume(c)

SpecList == InitList /\ [][NextList]_vars

\* ------------------------------------------------- every update refused
\* quick status changes, while the server answers every update with a failure
InitRefused == LoggedIn /\ InitBoard /\ opsLeft = MaxRefusedOps /\ uiLeft = 0

ServeRefusing ==
  \/ \E c \in calls : c.kind = "list" /\ ServeOk(c)
  \/ \E c \in calls, st \in {"auth", "err"} : ServeFail(c, st)

NextRefused ==
  \/ ServeRefusing
  \/ \E c \in calls : fetchTasksResume(c)
  \/ \E t \in Range(filteredTasks), s \in Statuses :
       handleQuickStatusChange(t, s)
  \/ \E c \in calls : handleQuickStatusChangeResume(c)

SpecRefused == InitRefused /\ [][NextRefused]_vars

\* ------------------------------------------- drags on a column of two
InitDrag == /\ LoggedIn
            /\ InitBoardOn(TwoInColumn)
            /\ opsLeft = MaxDragOps
            /\ uiLeft = MaxDragUi

NextDrag ==
  \/ Serve
  \/ \E c \in calls : fetchTasksResume(c)
  \/ \E r \in DragResults : handleDragEnd(r)
  \/ \E c \in calls : handleDragEndResume(c)

SpecDrag == InitDrag /\ [][NextDrag]_vars

\* ------------------------------------------------------------ the forms
\* the Board used through its task form and its quick-add forms
InitForms ==
  LoggedIn /\ InitBoard /\ opsLeft = MaxFormOps /\ uiLeft = MaxFormUi

NextForm ==
  \/ Serve
  \/ \E c \in calls : fetchTasksResume(c)
  \/ \E t \in Range(filteredTasks) : openEditModal(t)
  \/ openCreateModal
  \/ closeTaskModal
  \/ \E name \in FormFields : \E value \in FieldInputs(name) :
       handleChange(name, value)
  \/ TaskFormHandleSubmit
  \/ \E c \in calls : handleCreateTaskResume(c)
  \/ \E c \in calls : handleUpdateTaskResume(c)
  \/ \E s \in Statuses, t \in TypedTitles, p \in FormPriorities :
       QuickAddTaskHandleSubmit(s, t, p)
  \/ \E c \in calls : handleQuickAddTaskResume(c)

SpecForm == InitForms /\ [][NextForm]_vars

\* ------------------------------------------------------ the filter alone
FilterTitles == {<<"A", "b">>, <<"b", " ", "a">>, <<"B">>}
FilterQueries == {<<>>, <<" ">>, <<"a">>, <<"A", "B">>, <<" ", "a">>,
                  <<"b", " ">>}
FilterPriorities == {"LOW", "HIGH"}

\* the caches of at most MaxFilterLen tasks, identified by their position
FilterCaches ==
  UNION { { c \in [1..n -> [id : 1..MaxFilterLen, title : FilterTitles,
                            status : Statuses, priority : FilterPriorities]] :
              \A i \in 1..n : c[i].id = i } : n \in 0..MaxFilterLen }

\* a Board that shows a cache, with a search string and a priority selector
\* set, before its filter effect has run; uiLeft counts the runs to come
InitFilter ==
  /\ LoggedIn
  /\ tasks \in FilterCaches
  /\ searchQuery \in FilterQueries
  /\ priorityFilter \in PriorityFilters
  /\ filteredTasks = <<>>
  /\ server = tasks
  /\ nextId = Len(server) + 1
  /\ tasksIsArray = TRUE
  /\ loading = FALSE
  /\ error = NoError
  /\ isTaskModalOpen = FALSE
  /\ editingTask = Null
  /\ deletingTask = Null
  /\ toast = ""
  /\ calls = {}
  /\ nextCall = 2
  /\ logoutTimers = 0
  /\ notes = <<>>
  /\ lastDrag = NoDrag
  /\ lastCall = NoCall
  /\ sequential = TRUE
  /\ tasksBefore = tasks
  /\ issued = {}
  /\ InitForm
  /\ sessionStep = ""
  /\ opsLeft = 0
  /\ uiLeft = MaxFilterRuns

\* an effect that writes the filtered list back into the cache
filterTasksEffect_InPlace ==
  /\ uiLeft > 0
  /\ uiLeft' = uiLeft - 1
  /\ filteredTasks' = filterTasks(tasks, searchQuery, priorityFilter)
  /\ tasks' = filteredTasks'
  /\ UNCHANGED <<server, nextId, loading, error, boardUI, toast, calls,
                 nextCall, opsLeft, logoutTimers, notes, lastDrag, lastCall,
                 sequential, tasksBefore, issued, session, tasksIsArray,
                 sessionStep, form, authFailedIn>>

\* the effect on [tasks, searchQuery, priorityFilter], run once
filterTasksEffect ==
  /\ uiLeft > 0
  /\ uiLeft' = uiLeft - 1
  /\ filteredTasks' = filterTasks(tasks, searchQuery, priorityFilter)
  /\ UNCHANGED <<server, nextId, tasks, loading, error, boardUI, toast,
                 calls, nextCall, opsLeft, logoutTimers, notes, lastDrag,
                 lastCall, sequential, tasksBefore, issued, session,
                 tasksIsArray, sessionStep, form, authFailedIn>>

NextFilter == filterTasksEffect

SpecFilter == InitFilter /\ [][NextFilter]_vars

\* ------------------------------------------- the optimistic rewrite alone
\* a Board that shows a cache, all of it, before any optimistic rewrite
InitRewrite ==
  /\ LoggedIn
  /\ tasks \in FilterCaches
  /\ searchQuery = <<>>
  /\ priorityFilter = "ALL"
  /\ filteredTasks = tasks
  /\ server = tasks
  /\ nextId = Len(server) + 1
  /\ tasksIsArray = TRUE
  /\ loading = FALSE
  /\ error = NoError
  /\ isTaskModalOpen = FALSE
  /\ editingTask = Null
  /\ deletingTask = Null
  /\ toast = ""
  /\ calls = {}
  /\ nextCall = 2
  /\ logoutTimers = 0
  /\ notes = <<>>
  /\ lastDrag = NoDrag
  /\ lastCall = NoCall
  /\ sequential = TRUE
  /\ tasksBefore = tasks
  /\ issued = {}
  /\ InitForm
  /\ sessionStep = ""
  /\ opsLeft = MaxRewrites
  /\ uiLeft = 0

\* setTasks(prev => prev.map(t => t.id === id ? {...t, status} : t)), the
\* updater of handleQuickStatusChange and handleDragEnd, for any id
optimisticRewrite(id, status) ==
  /\ opsLeft > 0
  /\ opsLeft' = opsLeft - 1
  /\ tasks' = setStatus(tasks, id, status)
  /\ tasksBefore' = tasks
  /\ UNCHANGED <<server, nextId, loading, error, boardUI, toast, calls,
                 nextCall, uiLeft, logoutTimers, notes, lastDrag, lastCall,
                 sequential, issued, session, tasksIsArray, sessionStep,
                 form, authFailedIn>>
  /\ Render

\* the ids of the cache and one that no cached task has
RewriteIds == 1..(MaxFilterLen + 1)

NextRewrite == \E id \in RewriteIds, status \in Statuses :
                 optimisticRewrite(id, status)

SpecRewrite == InitRewrite /\ [][NextRewrite]_vars

\* ================================================================ claims
failed(c) == c.st \in {"auth", "err"}

isMutation(c) == c.kind \in {"create", "update", "delete"}

cachedStatusIs(ts, id, status) ==
  \A i \in 1..Len(ts) : ts[i].id = id => ts[i].status = status

\* the last step changed nothing in the Task Cache
cacheKept == tasks = tasksBefore

\* the last step issued exactly one call, a load
oneReload == /\ Cardinality(issued) = 1
             /\ \A c \in issued : c.kind = "list"

\* the last step finished the load that a failed DragMove started
dragReloadDone(c) == c.kind = "list" /\ c.h = "drag"

\* the last step finished the load that a successful Create or QuickAdd started
createReloadDone(c) == c.kind = "list" /\ c.h \in {"create", "quickAdd"}

\* C1: QuickStatusChange remembers the status the cached task has when the
\* handler is invoked, and when its update call has failed and the handler
\* has resumed, the cached task has exactly that status again.
C1_ExactRollback ==
  /\ \A c \in issued : c.h = "qsc" =>
       hasId(tasksBefore, c.id) /\ statusOf(tasksBefore, c.id) = c.prev
  /\ (lastCall.h = "qsc" /\ failed(lastCall)) =>
       cachedStatusIs(tasks, lastCall.id, lastCall.prev)

C1_Witness ==
  /\ lastCall.h = "qsc" /\ failed(lastCall)
  /\ lastCall.data.status # lastCall.prev
  /\ hasId(tasks, lastCall.id)
  /\ statusOf(tasks, lastCall.id) = lastCall.prev

\* C2 as stated: while a QuickStatusChange(T, B) call is in flight, and when
\* it has resolved successfully, the cached status of T is B.
C2_AsStated ==
  /\ \A c \in calls : c.h = "qsc" => cachedStatusIs(tasks, c.id, c.data.status)
  /\ (lastCall.h = "qsc" /\ lastCall.st = "ok") =>
       cachedStatusIs(tasks, lastCall.id, lastCall.data.status)

\* C2 amended: invoking QuickStatusChange(T, B) leaves the cached status of T
\* at B; while its call is in flight that status is rewritten only by another
\* handler (a further status change of T being invoked, a load resolving, or
\* the rollback of another failed QuickStatusChange of T); and the successful
\* resolution of the call changes nothing in the cache.
C2_OptimisticUntilRewritten ==
  /\ \A c \in issued : c.h = "qsc" =>
       hasId(tasks, c.id) /\ statusOf(tasks, c.id) = c.data.status
  /\ \A c \in calls \ issued :
       ( /\ c.h = "qsc"
         /\ cachedStatusIs(tasksBefore, c.id, c.data.status)
         /\ ~cachedStatusIs(tasks, c.id, c.data.status) )
       => \/ lastCall.kind = "list" /\ lastCall.st = "ok"
          \/ lastCall.h = "qsc" /\ failed(lastCall) /\ lastCall.id = c.id
          \/ \E n \in issued : /\ n.kind = "update" /\ n.id = c.id
                               /\ n.h \in {"qsc", "drag"}
  /\ (lastCall.h = "qsc" /\ lastCall.st = "ok") => cacheKept

C2_Witness ==
  /\ lastCall.h = "qsc" /\ lastCall.st = "ok"
  /\ lastCall.data.status # lastCall.prev
  /\ hasId(tasks, lastCall.id)
  /\ statusOf(tasks, lastCall.id) = lastCall.data.status

C4_AsStated ==
  dragReloadDone(lastCall) =>
    \A i \in 1..Len(tasks) :
      (tasks[i].id = lastCall.id /\ tasks[i].status = lastCall.data.status)
        => /\ hasId(server, lastCall.id)
           /\ statusOf(server, lastCall.id) = lastCall.data.status

\* C5 as stated: DragMove sets the cached status before its call resolves; a
\* failed call makes the handler issue exactly one load and restore nothing;
\* once that load succeeds the cached task shows the status the server holds.
C5_AsStated ==
  /\ \A c \in issued : c.h = "drag" /\ c.kind = "update" =>
       hasId(tasks, c.id) /\ statusOf(tasks, c.id) = c.data.status
  /\ (lastCall.h = "drag" /\ lastCall.kind = "update" /\ failed(lastCall))
       => cacheKept /\ oneReload
  /\ (dragReloadDone(lastCall) /\ lastCall.st = "ok"
      /\ hasId(server, lastCall.id)) =>
       /\ hasId(tasks, lastCall.id)
       /\ statusOf(tasks, lastCall.id) = statusOf(server, lastCall.id)

\* C5 amended: DragMove sets the cached status before its call resolves; a
\* failed call makes the handler issue exactly one load and restore nothing;
\* once that load succeeds the cache is the list the server returned, the
\* server's list at the time it served the load, so the task shows the status
\* the server held then (an update served later is not reflected).
C5_DragReloadsOnFailure ==
  [][ /\ \A c \in issued' : c.h = "drag" /\ c.kind = "update" =>
           hasId(tasks', c.id) /\ statusOf(tasks', c.id) = c.data.status
      /\ (lastCall'.h = "drag" /\ lastCall'.kind = "update"
          /\ failed(lastCall')) => tasks' = tasks /\ oneReload'
      /\ \A c \in calls, d \in calls' :
           (c.cid = d.cid /\ dragReloadDone(c) /\ c.st = "sent" /\ d.st = "ok")
             => d.resp = server
      /\ (dragReloadDone(lastCall') /\ lastCall'.st = "ok") =>
           tasks' = lastCall'.resp ]_vars

C5_Witness ==
  /\ dragReloadDone(lastCall) /\ lastCall.st = "ok"
  /\ hasId(tasks, lastCall.id)
  /\ statusOf(tasks, lastCall.id) # lastCall.data.status
  /\ hasId(server, lastCall.id)
  /\ statusOf(tasks, lastCall.id) = statusOf(server, lastCall.id)

\* C6: a drag whose destination is the source position (same column, same
\* index) issues no remote call, raises no notification and leaves the Task
\* Cache unchanged.
C6_DragToSamePlaceIsNoOp ==
  (lastDrag # NoDrag /\ lastDrag.destination = lastDrag.source)
    => /\ issued = {}
       /\ notes = <<>>
       /\ cacheKept

C6_Witness ==
  /\ lastDrag # NoDrag
  /\ lastDrag.destination = lastDrag.source
  /\ tasks # <<>>
  /\ calls = {}

\* C7: when the create call of Create or QuickAdd has failed, resuming the
\* handler leaves the Task Cache as it was, every cached task has an
\* identifier the server assigned, and no load is issued.
C7_CreateFailureKeepsCache ==
  (lastCall.kind = "create" /\ failed(lastCall))
    => /\ cacheKept
       /\ \A i \in 1..Len(tasks) : tasks[i].id \in 1..(nextId - 1)
       /\ issued = {}

C7_Witness ==
  /\ lastCall.kind = "create" /\ lastCall.h = "create" /\ failed(lastCall)
  /\ tasks # <<>>
  /\ inFlight("list") = {}

\* C8 as stated: Create and QuickAdd leave the cache unchanged when invoked
\* and when resumed; a successful call makes the handler issue exactly one
\* load; when that load has succeeded the cache contains the created task.
C8_AsStated ==
  /\ (\E c \in issued : c.kind = "create") => cacheKept
  /\ lastCall.kind = "create" =>
       /\ cacheKept
       /\ lastCall.st = "ok" => oneReload
  /\ (createReloadDone(lastCall) /\ lastCall.st = "ok") =>
       hasId(tasks, lastCall.id)

\* C8 amended: Create and QuickAdd leave the cache unchanged when invoked and
\* when resumed; a successful call makes the handler issue exactly one load;
\* when that load has succeeded the cache contains the created task under the
\* identifier the server assigned, unless the server no longer holds the task
\* (it was deleted while the handler was waiting).
C8_CreateReloads ==
  /\ (\E c \in issued : c.kind = "create") => cacheKept
  /\ lastCall.kind = "create" =>
       /\ cacheKept
       /\ lastCall.st = "ok" => oneReload
  /\ (createReloadDone(lastCall) /\ lastCall.st = "ok") =>
       /\ lastCall.id \in 1..(nextId - 1)
       /\ hasId(tasks, lastCall.id) \/ ~hasId(server, lastCall.id)

C8_Witness ==
  /\ createReloadDone(lastCall) /\ lastCall.h = "quickAdd"
  /\ lastCall.st = "ok"
  /\ hasId(tasks, lastCall.id)
  /\ lastCall.id = Len(tasks)
  /\ tasks = server

\* C9: Update and Delete leave the Task Cache unchanged when they are invoked;
\* when the call has succeeded the handler issues exactly one load and still
\* leaves the cache unchanged; when the call has failed the handler leaves the
\* cache unchanged and issues no load.
C9_UpdateDeleteNotOptimistic ==
  /\ (\E c \in issued : c.h \in {"update", "delete"} /\ isMutation(c))
       => cacheKept
  /\ (lastCall.h \in {"update", "delete"} /\ isMutation(lastCall))
       => /\ cacheKept
          /\ IF lastCall.st = "ok" THEN oneReload ELSE issued = {}

C9_Witness ==
  /\ lastCall.h = "update" /\ lastCall.kind = "update" /\ failed(lastCall)
  /\ hasId(tasks, lastCall.id)
  /\ statusOf(tasks, lastCall.id) # lastCall.data.status
  /\ inFlight("list") = {}

\* C10: a mutation handler emits no notification when it is invoked and
\* exactly one when its call has resolved, "success" if and only if the call
\* succeeded; the load a handler starts emits none.  QuickStatusChange(task 1,
\* DONE) on the cache [{id 1, BACKLOG}] with a failing update ends with that
\* cache and one "error" notification.
C10_OneNotificationPerCall ==
  /\ (\E c \in issued : isMutation(c)) => notes = <<>>
  /\ (lastCall # NoCall /\ isMutation(lastCall))
       => /\ notes = <<IF lastCall.st = "ok" THEN "success" ELSE "error">>
          /\ toast = notes[1]
  /\ (lastCall # NoCall /\ ~isMutation(lastCall)) => notes = <<>>
  /\ ( /\ lastCall.h = "qsc" /\ failed(lastCall)
       /\ lastCall.id = 1 /\ lastCall.prev = "BACKLOG"
       /\ lastCall.data.status = "DONE"
       /\ Len(tasksBefore) = 1 /\ tasksBefore[1].id = 1 )
     => /\ tasks = <<[tasksBefore[1] EXCEPT !.status = "BACKLOG"]>>
        /\ notes = <<"error">>

C10_Witness ==
  /\ lastCall.h = "qsc" /\ failed(lastCall)
  /\ lastCall.id = 1 /\ lastCall.prev = "BACKLOG"
  /\ lastCall.data.status = "DONE"
  /\ Len(tasks) = 1 /\ tasks[1].id = 1 /\ tasks[1].status = "BACKLOG"
  /\ notes = <<"error">>

\* the session is terminated: no key is stored and nobody is authenticated
loggedOut == ~isAuthenticated /\ getApiKey(localStorage) = null

\* C11 as stated: whenever a call issued by a mutation handler has failed
\* with 401/403, the session is eventually terminated: logout runs, the
\* stored API key is cleared and isAuthenticated is false.
C11_AsStated ==
  (isMutation(lastCall) /\ lastCall.st = "auth") ~> loggedOut

\* C12: when a load has failed with 401/403 the Board shows the message for
\* a refused key and logout is eventually executed by the timer the load
\* armed; when a load has failed for any other reason the Board shows the
\* retry message and the load arms no logout timer.
C12_LoadFailures ==
  /\ []( (lastCall.kind = "list" /\ failed(lastCall) /\ live(lastCall))
          => error = IF lastCall.st = "auth"
                     THEN "Invalid API key. Please login again."
                     ELSE "Failed to fetch tasks. Please try again." )
  /\ [][ (lastCall'.kind = "list" /\ failed(lastCall'))
          => logoutTimers' = logoutTimers
                             + (IF lastCall'.st = "auth" THEN 1 ELSE 0) ]_vars
  /\ ( (lastCall.kind = "list" /\ lastCall.st = "auth")
         ~> (sessionStep = "timer" /\ loggedOut) )

C12_Witness ==
  /\ sessionStep = "timer"
  /\ loggedOut
  /\ route = "/login" /\ ~mounted
  /\ logoutTimers = 0

\* C13 as stated: after a load has succeeded the Task Cache is exactly the
\* sequence of Task records of the response, in response order, whether the
\* response is a page object or a plain array; nothing of the previous cache
\* survives.
C13_AsStated ==
  (lastCall.kind = "list" /\ lastCall.st = "ok" /\ lastCall.inst = board)
    => /\ tasksIsArray
       /\ tasks = lastCall.resp

\* the filter effect has run on the state's cache, search string and selector
filtered == uiLeft < MaxFilterRuns

\* the title contains s, letter case aside
containsIgnoringCase(title, s) ==
  \E k \in 0..(Len(title) - Len(s)) :
    \A j \in 1..Len(s) : toLowerCase(<<title[k + j]>>) = toLowerCase(<<s[j]>>)

\* the positions of the cache that a predicate keeps, in cache order
kept(ts, Keeps(_)) == SelectSeq(ts, Keeps)

\* C14 as stated: for every cache, search string s (whitespace included) and
\* priority selector p, the filtered list is the subsequence of the cache, in
\* cache order, of the tasks whose title contains s case-insensitively and
\* whose priority is p unless p is "ALL"; an empty s matches every task.
C14_AsStated ==
  filtered =>
    filteredTasks =
      kept(tasks, LAMBDA t :
             /\ containsIgnoringCase(t.title, searchQuery)
             /\ priorityFilter = "ALL" \/ t.priority = priorityFilter)

\* C14 amended: the filtered list is the subsequence of the cache, in cache
\* order, of the tasks whose priority is p unless p is "ALL" and whose title
\* contains s, as typed, case-insensitively; an s that is empty or only
\* whitespace matches every task.  The result is a subset of the cache.
C14_FilterIsSubsequence ==
  filtered =>
    /\ filteredTasks =
         kept(tasks, LAMBDA t :
                /\ \/ \A j \in 1..Len(searchQuery) : searchQuery[j] = " "
                   \/ containsIgnoringCase(t.title, searchQuery)
                /\ priorityFilter = "ALL" \/ t.priority = priorityFilter)
    /\ Range(filteredTasks) \subseteq Range(tasks)

C14_Witness ==
  /\ filtered
  /\ searchQuery = <<"A", "B">>
  /\ priorityFilter = "HIGH"
  /\ Len(tasks) = 2
  /\ Len(filteredTasks) = 1
  /\ filteredTasks[1] = tasks[2]
  /\ tasks[1].priority = "HIGH"

\* the position of a task in a list of tasks with distinct identifiers
indexOf(ts, t) == CHOOSE i \in 1..Len(ts) : ts[i].id = t.id

\* C15: the three status columns partition the filtered list: every filtered
\* task is in the column of its status, once, and in no other column, and
\* the tasks of a column are in the order they have in the filtered list.
C15_ColumnsPartition ==
  /\ \A i \in 1..Len(filteredTasks), s \in Statuses :
       Cardinality({k \in 1..Len(getTasksByStatus(s)) :
                      getTasksByStatus(s)[k] = filteredTasks[i]})
         = IF s = filteredTasks[i].status THEN 1 ELSE 0
  /\ \A s \in Statuses :
       /\ Range(getTasksByStatus(s)) \subseteq Range(filteredTasks)
       /\ \A a, b \in 1..Len(getTasksByStatus(s)) :
            a < b => indexOf(filteredTasks, getTasksByStatus(s)[a])
                       < indexOf(filteredTasks, getTasksByStatus(s)[b])

C15_Witness ==
  /\ filtered
  /\ Len(filteredTasks) = 2
  /\ Len(getTasksByStatus("DONE")) = 1
  /\ Len(getTasksByStatus("BACKLOG")) = 1
  /\ getTasksByStatus("DONE")[1] = filteredTasks[1]

handlerResumes(c) ==
  \/ fetchTasksResume(c)
  \/ handleCreateTaskResume(c)
  \/ handleQuickAddTaskResume(c)
  \/ handleUpdateTaskResume(c)
  \/ handleDeleteTaskResume(c)
  \/ handleQuickStatusChangeResume(c)
  \/ handleDragEndResume(c)

\* C17: whatever the outcome of a remote call, the handler that issued it
\* takes the outcome and terminates; after a failed call the Board is still
\* on screen with its cache an array, it shows its columns and controls (not
\* the spinner) unless a load is still in flight, and when it shows them it
\* accepts the user's intents.
C17_FailuresAreCaught ==
  /\ \A c \in calls : c.st # "sent" => ENABLED handlerResumes(c)
  /\ (lastCall # NoCall /\ failed(lastCall)) =>
       /\ \A c \in calls : c.cid # lastCall.cid
       /\ mounted /\ tasksIsArray
       /\ loading => inFlight("list") # {}
       /\ notes # <<>> \/ error # NoError
       /\ (boardShown /\ uiLeft > 0) =>
            /\ \A q \in SearchInputs : ENABLED setSearchQuery(q)
            /\ \A p \in PriorityFilters : ENABLED setPriorityFilter(p)
            /\ ENABLED openCreateModal
            /\ \A t \in Range(filteredTasks) :
                 ENABLED openEditModal(t) /\ ENABLED setDeletingTask(t)
       /\ (boardShown /\ opsLeft > 0) =>
            /\ \A t \in Range(filteredTasks), st \in Statuses :
                 ENABLED handleQuickStatusChange(t, st)
            /\ uiLeft > 0 => \A r \in DragResults : ENABLED handleDragEnd(r)
            /\ roomToCreate =>
                 \A f \in FormInputs : ENABLED handleQuickAddTask(f)

C17_Witness ==
  /\ lastCall.kind = "list" /\ lastCall.st = "err"
  /\ boardShown
  /\ error = "Failed to fetch tasks. Please try again."
  /\ opsLeft = 0
  /\ tasks # <<>>

\* C18 as stated: every request carries an X-API-KEY header whose value is
\* the key stored under 'apiKey' when the request is issued, and the request
\* that follows a login carries the key that login saved.
C18_AsStated ==
  /\ \A c \in issued : c.key # null /\ c.key = getApiKey(localStorage)
  /\ (sessionStep = "login" /\ loginError = <<>>) =>
       \E c \in issued : c.key = getApiKey(localStorage)

\* C19: after login(k) the key stored under 'apiKey' is k and isAuthenticated
\* is true; after logout() no key is stored and isAuthenticated is false,
\* also when the session was logged out already; no other step of a page
\* changes either, so both are always those of the last login or logout.
C19_LastCallWins ==
  [][ /\ \A k \in LoginInputs :
           (LoginHandleSubmit(k) /\ trim(k) # <<>>)
             => getApiKey(localStorage') = k /\ isAuthenticated'
      /\ sessionStep' \in {"logout", "timer"}
           => getApiKey(localStorage') = null /\ ~isAuthenticated'
      /\ ~(sessionStep' \in {"login", "logout", "timer", "init", "reload"})
           => UNCHANGED <<localStorage, isAuthenticated>>
      /\ sessionStep' \in {"init", "reload"} => UNCHANGED localStorage ]_vars

C19_Witness ==
  /\ sessionStep = "login"
  /\ getApiKey(localStorage) = <<"j", " ">>
  /\ isAuthenticated
  /\ board = 2
  /\ sessLeft = 0

\* C20: when the auth provider has finished initialising, isLoading is false
\* and isAuthenticated is true exactly when an API key is stored; a page
\* load keeps the storage, so a reload after login(k) with no logout in
\* between starts authenticated.
C20_LoginPersists ==
  /\ [](sessionStep = "init" =>
          /\ ~isLoading
          /\ isAuthenticated <=> getApiKey(localStorage) # null)
  /\ [][sessionStep' = "reload" =>
          /\ UNCHANGED localStorage
          /\ isLoading' /\ ~isAuthenticated']_vars

C20_Witness ==
  /\ sessionStep = "init"
  /\ isAuthenticated /\ ~isLoading
  /\ getApiKey(localStorage) = <<"j", " ">>
  /\ route = "/board" /\ mounted
  /\ sessLeft = 0

\* ------------------------------------------------------------------- C21
titled(c) == c.kind \in {"create", "update"}
             /\ c.h \in {"create", "quickAdd", "update"}

\* the last step was a submission of a form whose title is blank
blankSubmission ==
  \/ TaskFormHandleSubmit /\ trim(formData.title) = <<>>
  \/ \E s \in Statuses, t \in TypedTitles, p \in FormPriorities :
       QuickAddTaskHandleSubmit(s, t, p) /\ trim(t) = <<>>

\* C21: no create or full-update call is issued with a title that is empty
\* or only white space, and a submission of the task form (create or edit
\* mode) or of a quick-add form with such a title issues no call and leaves
\* the Task Cache as it was
C21_BlankTitleRejected ==
  [][ /\ \A c \in calls' \ calls : titled(c) => trim(c.data.title) # <<>>
      /\ blankSubmission => calls' = calls /\ tasks' = tasks ]_vars

\* a blank title was submitted in the task form and answered by the message
C21_Witness ==
  /\ formShown
  /\ trim(formData.title) = <<>>
  /\ formErrors # <<>>
  /\ "title" \in dirty
  /\ calls = {}

\* ------------------------------------------------------------------- C28
\* C28: a create call of the task form carries, in every field, the default
\* or a value the user entered while the form was in create mode; a form
\* switched from edit to create mode sends no field of the task it showed
C28_AsStated ==
  \A c \in issued :
    c.kind = "create" /\ c.h = "create" =>
      \A f \in FormFields \ dirty : c.data[f] = FormDefaults[f]

\* ------------------------------------------------------------------- C22
optimistic(c) == c.kind = "update" /\ c.h \in {"qsc", "drag"}

\* C22: the step of an optimistic handler (QuickStatusChange, DragMove) that
\* issues its call has already rewritten the cache and notifies nobody; the
\* handler reconciles (notification, rollback or reload) only in the step
\* that resumes it, which comes after the call has resolved; and the cache
\* changes in no step other than one that starts or resumes a handler
C22_MutateThenCallThenReconcile ==
  /\ \A c \in issued :
       optimistic(c) => /\ c.st = "sent"
                        /\ cachedStatusIs(tasks, c.id, c.data.status)
                        /\ notes = <<>>
  /\ notes # <<>> => lastCall # NoCall
  /\ lastCall # NoCall /\ lastCall.h \in {"qsc", "drag"} =>
       /\ lastCall.st # "sent"
       /\ lastCall.kind = "update" => notes # <<>>
  /\ tasks # tasksBefore => issued # {} \/ lastCall # NoCall

\* a quick status change was rolled back after its call had failed
C22_Witness ==
  /\ lastCall.h = "qsc" /\ failed(lastCall)
  /\ tasks # tasksBefore
  /\ notes # <<>>

\* ------------------------------------------------------------------- C23
\* no status mutation but the one just processed is left on that task
lastOnItsTask ==
  /\ lastCall # NoCall /\ optimistic(lastCall)
  /\ ~\E c \in calls : optimistic(c) /\ c.id = lastCall.id

\* what the handler of a processed call asked for, or restores
produced(c) == IF c.st = "ok" THEN c.data.status ELSE c.prev

\* C23 as stated: once the status mutations of a task have all been
\* processed, the cache shows the status of the handler processed last
C23_AsStated ==
  lastOnItsTask /\ (lastCall.st = "ok" \/ lastCall.h = "qsc") =>
    cachedStatusIs(tasks, lastCall.id, produced(lastCall))

\* C23: no call is cancelled (a call leaves the calls in flight only in the
\* step that resumes its own handler), and the cache shows what was written
\* to it last: a successful response writes nothing, a failed quick status
\* change writes back the status it captured, a failed drag starts a reload
C23_LastCacheWriteWins ==
  [][ /\ \A c \in calls :
           (\A d \in calls' : d.cid # c.cid) => lastCall' = c
      /\ lastCall' # NoCall /\ optimistic(lastCall') =>
           CASE lastCall'.st = "ok" -> tasks' = tasks
             [] lastCall'.h = "qsc" ->
                  tasks' = setStatus(tasks, lastCall'.id, lastCall'.prev)
             [] OTHER -> /\ tasks' = tasks
                         /\ \E c \in calls' \ calls : c.kind = "list" ]_vars

\* two status changes of one task overlapped; the response processed last
\* is a success, and the cache shows the status of the other handler
C23_Witness ==
  /\ lastOnItsTask
  /\ lastCall.st = "ok"
  /\ ~cachedStatusIs(tasks, lastCall.id, lastCall.data.status)
  /\ calls = {}

\* ------------------------------------------------------------------- C24
\* every quick status change has been processed, the last one just now
allRolledBack ==
  /\ calls = {}
  /\ lastCall.h = "qsc" /\ failed(lastCall)

\* C24 as stated: when the quick status changes of a task have all failed
\* and been processed, the cache shows the status the task had before the
\* first of them, which is the status the server has held all along
C24_AsStated ==
  allRolledBack => cachedStatusIs(tasks, lastCall.id,
                                  statusOf(server, lastCall.id))

\* C24: when the quick status changes of a task have all failed and been
\* processed, the cache shows the status that the change processed last
\* captured when it was invoked
C24_LastRollbackWins ==
  allRolledBack => /\ hasId(tasks, lastCall.id)
                   /\ statusOf(tasks, lastCall.id) = lastCall.prev

\* two overlapping changes failed in the order they were invoked: the cache
\* is left with the optimistic status of the first
C24_Witness ==
  /\ allRolledBack
  /\ opsLeft = 0
  /\ statusOf(tasks, lastCall.id) = lastCall.prev
  /\ lastCall.prev # statusOf(server, lastCall.id)

\* ------------------------------------------------------------------- C25
isLoad(c) == c.kind = "list"

\* C25 as stated: the reload issued last has been processed, and this step
\* processes the one issued before it, the only other load in flight; both
\* have settled now, and the cache holds the response of the one issued last
C25_AsStated ==
  [][ \A c \in calls :
        ( /\ isLoad(lastCall) /\ lastCall.st = "ok"
          /\ isLoad(c) /\ c.cid < lastCall.cid
          /\ lastCall' = c
          /\ ~\E d \in calls' : isLoad(d) )
        => tasks' = lastCall.resp ]_vars

\* C25: a load that is processed replaces the cache by its own response if
\* it succeeded and leaves the cache alone if it failed, whenever it was
\* issued: after overlapping reloads the cache holds the response of the
\* successful reload that was processed last
C25_LastProcessedWins ==
  isLoad(lastCall) =>
    IF lastCall.st = "ok" THEN tasks = lastCall.resp ELSE cacheKept

\* two reloads were in flight together; the one issued last has just been
\* processed, the earlier one waits with a different response
C25_Witness ==
  /\ isLoad(lastCall) /\ lastCall.st = "ok"
  /\ tasks = lastCall.resp
  /\ \E c \in calls : /\ isLoad(c) /\ c.st = "ok"
                       /\ c.cid < lastCall.cid
                       /\ c.resp # lastCall.resp

\* ------------------------------------------------------------------- C26
\* `after` is `before` with the status of the tasks of that id set, and
\* nothing else touched
onlyStatusOf(before, after, id, status) ==
  /\ Len(after) = Len(before)
  /\ \A i \in 1..Len(before) :
       /\ after[i].id = before[i].id
       /\ after[i].title = before[i].title
       /\ after[i].priority = before[i].priority
       /\ after[i].status = IF before[i].id = id THEN status
                                                ELSE before[i].status
  /\ ~hasId(before, id) => after = before

\* C26: the optimistic rewrite of QuickStatusChange and DragMove sets the
\* status of the cached task of that id and changes nothing else: not the
\* number, the order or the ids of the tasks, no other field, no other task;
\* with no cached task of that id the cache stays as it is
C26_OnlyTheStatus ==
  [][ \A id \in RewriteIds, status \in Statuses :
        optimisticRewrite(id, status) =>
          onlyStatusOf(tasks, tasks', id, status) ]_vars

\* a cache of two tasks, one of which has been given another status
C26_Witness ==
  /\ Len(tasks) = 2
  /\ opsLeft < MaxRewrites
  /\ tasks # tasksBefore
  /\ \E i \in 1..2 : tasks[i] = tasksBefore[i]

\* ------------------------------------------------------------------- C27
\* C27: the delayed logout that a load's 401/403 schedules ends only the
\* session of the Board whose load failed: when it fires in a session that
\* began with a later login and none of whose loads was refused, the stored
\* key stays and isAuthenticated stays true
C27_AsStated ==
  [][ ( /\ sessionStep' = "timer"
        /\ isAuthenticated /\ mounted
        /\ board \notin authFailedIn )
      => /\ isAuthenticated'
         /\ localStorage' = localStorage ]_vars

\* ------------------------------------------------------------------- C29
\* a list call has been issued and its continuation has not run yet
loadInFlight == \E c \in calls : isLoad(c)

\* C29: `loading` is true exactly while a load is in flight, also when
\* several reloads overlap
C29_AsStated == tasksIsArray => (loading <=> loadInFlight)

\* ------------------------------------------------------------------- C30
\* dropped into the column it came from, at another index
sameColumnMove(result) ==
  /\ ~noDestination(result)
  /\ result.source.droppableId = result.destination.droppableId
  /\ result.source.index # result.destination.index

\* C30: a drag that ends in its own column at another index is no no-op: it
\* issues exactly one partial update, which carries the status the task
\* already has, and leaves the cache as it is, statuses and order; the
\* handler resumed on that call's response emits one notification and again
\* leaves the cache as it is; a drag without destination issues no call,
\* notifies nobody and changes nothing
C30_SameColumnMoveIsSent ==
  /\ (lastDrag # NoDrag /\ sameColumnMove(lastDrag)) =>
       /\ \E c \in issued :
            /\ issued = {c}
            /\ c.kind = "update" /\ c.h = "drag"
            /\ c.id = parseInt(lastDrag.draggableId)
            /\ c.data = [status |-> statusOf(tasksBefore, c.id)]
       /\ cacheKept
       /\ notes = <<>>
  /\ (lastCall # NoCall /\ lastCall.h = "drag" /\ lastCall.kind = "update") =>
       /\ Len(notes) = 1
       /\ cacheKept
  /\ (lastDrag # NoDrag /\ noDestination(lastDrag)) =>
       /\ issued = {}
       /\ cacheKept
       /\ notes = <<>>

\* the second card of a column was dropped on the first slot of the column
C30_Witness ==
  /\ lastDrag # NoDrag /\ sameColumnMove(lastDrag)
  /\ issued # {}
  /\ Len(tasks) = 2

====
